---- MODULE Spec2Model ----
(***************************************************************************)
(* TradeSim (src/main.cpp): a single-instrument limit-order matching       *)
(* engine.  An OrderBook holds two std::priority_queue<Order,              *)
(* vector<Order>, Comparator> (bids and asks); MatchingEngine::processOrder *)
(* risk-checks an incoming order, matches it against the opposite side at  *)
(* the resting order's price, and rests any remainder.  main() is the      *)
(* interactive shell that validates user input and calls processOrder.     *)
(*                                                                         *)
(* Prices are doubles in the source; they are only compared (<, >=, !=,    *)
(* <= 0), so they are modelled as integers (price ticks).  A               *)
(* priority_queue is modelled as its underlying vector, kept as a binary   *)
(* heap by std::push_heap / std::pop_heap (libstdc++'s algorithms, the     *)
(* library the program is built with); top() is the vector's front.        *)
(***************************************************************************)
EXTENDS Integers, Sequences, FiniteSets, TLC

VARIABLES
    buyOrders,      \* OrderBook::buyOrders, the heap's vector (front = top)
    sellOrders,     \* OrderBook::sellOrders
    tradeLog,       \* the trades handed to TradeLogger::logTrade, in order
    orderCounter,   \* main()'s static orderCounter
    randomCounter,  \* generateRandomOrders()'s static orderCounter
    clock,          \* the last value Utils::getCurrentTimestamp() returned
    genLeft,        \* iterations left in generateRandomOrders' loop (0: at the menu)
    submitted,      \* history: every Order passed to processOrder, with its fate
    lastCall        \* history: the most recent submission and what it did

vars == <<buyOrders, sellOrders, tradeLog, orderCounter, randomCounter, clock,
          genLeft, submitted, lastCall>>

----------------------------------------------------------------------------
(* Bounds of the model *)

\* processOrder is called at most MaxOrders times in one run
MaxOrders == 3

\* ... and at most MaxLevelOrders times in a run at one price level
MaxLevelOrders == 5

(* Program constants *)

\* the risk limit of processOrder
MaxQuantity == 1000

\* first id of main()'s orders
FirstOrderID == 1

\* first id of the random orders
FirstRandomID == 10000

\* the largest count main() accepts for random orders
MaxRandomCount == 100

\* the lowest random price (priceDist) and quantity (quantityDist)
MinRandomPrice == 50
MinRandomQuantity == 10

(* Input domains: small sets of the values a user can type and the random  *)
(* generator can draw.                                                      *)

Types == {"buy", "sell"}
Prices == {MinRandomPrice, MinRandomPrice + 1}
SmallQuantities == {MinRandomQuantity}
RandomPrices == {MinRandomPrice}
LevelQuantities == {MinRandomQuantity, 2 * MinRandomQuantity}

\* what the user may type at main()'s prompts, valid or not
UserTypes == Types \cup {"hold"}
UserPrices == Prices \cup {0}
UserQuantities == SmallQuantities \cup {0, MaxQuantity, MaxQuantity + 1}
UserCounts == {0, 1, 2, MaxRandomCount + 1}

Min(a, b) == IF a < b THEN a ELSE b

----------------------------------------------------------------------------
(* Order *)

Order(id, orderType, orderPrice, orderQuantity, orderTimestamp) ==
    [orderID |-> id, type |-> orderType, price |-> orderPrice,
     quantity |-> orderQuantity, timestamp |-> orderTimestamp]

\* a(b) is true when a has LOWER priority than b (std::priority_queue order)
BuyOrderComparator(a, b) ==
    IF a.price # b.price
    THEN a.price < b.price
    ELSE a.timestamp > b.timestamp

\* a slip in the tie-break: the later order wins among equal prices
SellOrderComparator_LaterFirst(a, b) ==
    IF a.price # b.price
    THEN a.price > b.price
    ELSE a.timestamp < b.timestamp

\* a slip in the price order: the asks as a max-heap
SellOrderComparator_MaxHeap(a, b) ==
    IF a.price # b.price
    THEN a.price < b.price
    ELSE a.timestamp > b.timestamp

SellOrderComparator(a, b) ==
    IF a.price # b.price
    THEN a.price > b.price
    ELSE a.timestamp > b.timestamp

\* the comparator of one side's priority_queue
Comp(side, a, b) ==
    IF side = "buy" THEN BuyOrderComparator(a, b) ELSE SellOrderComparator(a, b)

----------------------------------------------------------------------------
(* std::priority_queue over a vector: push = push_back + push_heap,        *)
(* pop = pop_heap + pop_back, top = front.  Indices below are 0-based as   *)
(* in the library; the sequence h is 1-based.                               *)

RECURSIVE SiftUp(_, _, _, _, _)
\* std::__push_heap: move the hole up while the parent has lower priority
SiftUp(side, h, hole, top, value) ==
    LET parent == (hole - 1) \div 2 IN
    IF hole > top /\ Comp(side, h[parent + 1], value)
    THEN SiftUp(side, [h EXCEPT ![hole + 1] = h[parent + 1]], parent, top, value)
    ELSE [h EXCEPT ![hole + 1] = value]

RECURSIVE SiftDown(_, _, _, _, _)
\* the loop of std::__adjust_heap: move the hole down to the better child
SiftDown(side, h, hole, second, len) ==
    IF second < (len - 1) \div 2
    THEN LET right == 2 * (second + 1) IN
         IF Comp(side, h[right + 1], h[right])
         THEN SiftDown(side, [h EXCEPT ![hole + 1] = h[right]], right - 1, right - 1, len)
         ELSE SiftDown(side, [h EXCEPT ![hole + 1] = h[right + 1]], right, right, len)
    ELSE [h |-> h, hole |-> hole, second |-> second]

\* the rest of std::__adjust_heap, after its loop left the hole at d.hole:
\* a last node with a left child only, then std::__push_heap of the value
FinishAdjust(side, d, len, value) ==
    IF (len % 2 = 0) /\ d.second = (len - 2) \div 2
    THEN SiftUp(side, [d.h EXCEPT ![d.hole + 1] = d.h[2 * (d.second + 1)]],
                2 * (d.second + 1) - 1, 0, value)
    ELSE SiftUp(side, d.h, d.hole, 0, value)

\* std::__adjust_heap(first, 0, len, value)
AdjustHeap(side, h, len, value) ==
    FinishAdjust(side, SiftDown(side, h, 0, 0, len), len, value)

\* a slip: the vector is emptied before the push
PushHeap_Replace(side, c, o) == <<o>>

\* priority_queue::push
PushHeap(side, c, o) == SiftUp(side, Append(c, o), Len(c), 0, o)

\* a slip: pop_back without pop_heap, the vector's last element goes
PopHeap_Back(side, c) == SubSeq(c, 1, Len(c) - 1)

\* a slip: pop leaves the queue as it is
PopHeap_Keep(side, c) == c

\* priority_queue::pop (called on a non-empty queue only)
PopHeap(side, c) ==
    IF Len(c) > 1
    THEN SubSeq(AdjustHeap(side, [c EXCEPT ![Len(c)] = c[1]], Len(c) - 1, c[Len(c)]),
                1, Len(c) - 1)
    ELSE <<>>

\* priority_queue::top
Top(c) == c[1]

----------------------------------------------------------------------------
(* MatchingEngine *)

\* a slip: the two ids handed to logTrade in the wrong order
Trade_Swapped(buyOrderID, sellOrderID, tradePrice, tradeQuantity) ==
    [buy |-> sellOrderID, sell |-> buyOrderID, price |-> tradePrice,
     quantity |-> tradeQuantity]

\* the record TradeLogger::logTrade receives
Trade(buyOrderID, sellOrderID, tradePrice, tradeQuantity) ==
    [buy |-> buyOrderID, sell |-> sellOrderID, price |-> tradePrice,
     quantity |-> tradeQuantity]

\* What one iteration of a matching loop saw and did (history, for the
\* properties): the opposite side when it was peeked, the resting order the
\* peek returned, the aggressor's quantity before the trade, the trade,
\* whether the resting order was put back, and the opposite side as
\* getTopSellOrder / getTopBuyOrder left it.
Step(oppBefore, resting, aggressorQty, trade, reinserted, oppPopped) ==
    [oppBefore |-> oppBefore, resting |-> resting, aggressorQty |-> aggressorQty,
     trade |-> trade, reinserted |-> reinserted, oppPopped |-> oppPopped]

\* slips in the price check: strict, and reversed
BuyMatches_Strict(buyOrder, topSellOrder) == buyOrder.price > topSellOrder.price
BuyMatches_Reversed(buyOrder, topSellOrder) == buyOrder.price <= topSellOrder.price

\* processBuyOrder's price check: the buy order can trade with the best ask
BuyMatches(buyOrder, topSellOrder) == buyOrder.price >= topSellOrder.price

\* processSellOrder's price check: the sell order can trade with the best bid
SellMatches(sellOrder, topBuyOrder) == sellOrder.price <= topBuyOrder.price

\* a slip: a trade moves half of what can be matched (rounded up)
TradeQuantity_Half(incoming, resting) ==
    (Min(incoming.quantity, resting.quantity) + 1) \div 2

\* a slip: the incoming order's whole quantity, without the min
TradeQuantity_Incoming(incoming, resting) == incoming.quantity

\* a slip: the resting order's whole quantity, without the min
TradeQuantity_Resting(incoming, resting) == resting.quantity

\* tradeQuantity of both loops
TradeQuantity(incoming, resting) == Min(incoming.quantity, resting.quantity)

\* tradePrice of processBuyOrder: the sell order's price
BuyTradePrice(buyOrder, topSellOrder) == topSellOrder.price

\* a slip: the incoming order's own price
SellTradePrice_Own(sellOrder, topBuyOrder) == sellOrder.price

\* tradePrice of processSellOrder: the buy order's price
SellTradePrice(sellOrder, topBuyOrder) == topBuyOrder.price

\* a slip: the popped order is never put back
PutBack_Never(resting) == FALSE

\* "if the popped order still has quantity, put it back in the book"
PutBack(resting) == resting.quantity > 0

\* a slip: an exhausted order is rested too
Remaining_OrZero(incoming) == incoming.quantity >= 0

\* "if there's remaining quantity, add to order book"
Remaining(incoming) == incoming.quantity > 0

RECURSIVE MatchBuy(_, _, _)

\* the body of processBuyOrder's loop once the prices match: the best ask is
\* popped, the trade logged, both quantities reduced, and the ask put back
\* when it has quantity left; then the loop goes on
ExecuteBuy(buyOrder, sells, steps, topSellOrder, tradeQuantity) ==
    MatchBuy([buyOrder EXCEPT !.quantity = @ - tradeQuantity],
             IF PutBack([topSellOrder EXCEPT !.quantity = @ - tradeQuantity])
             THEN PushHeap("sell", PopHeap("sell", sells),
                           [topSellOrder EXCEPT !.quantity = @ - tradeQuantity])
             ELSE PopHeap("sell", sells),
             Append(steps,
                    Step(sells, topSellOrder, buyOrder.quantity,
                         Trade(buyOrder.orderID, topSellOrder.orderID,
                               BuyTradePrice(buyOrder, topSellOrder), tradeQuantity),
                         PutBack([topSellOrder EXCEPT !.quantity = @ - tradeQuantity]),
                         PopHeap("sell", sells))))

\* the while loop of processBuyOrder
MatchBuy(buyOrder, sells, steps) ==
    IF buyOrder.quantity > 0 /\ sells # <<>>
    THEN IF BuyMatches(buyOrder, Top(sells))
         THEN ExecuteBuy(buyOrder, sells, steps, Top(sells),
                         TradeQuantity(buyOrder, Top(sells)))
         ELSE [order |-> buyOrder, opp |-> sells, steps |-> steps]
    ELSE [order |-> buyOrder, opp |-> sells, steps |-> steps]

RECURSIVE MatchSell(_, _, _)

\* the body of processSellOrder's loop once the prices match
ExecuteSell(sellOrder, buys, steps, topBuyOrder, tradeQuantity) ==
    MatchSell([sellOrder EXCEPT !.quantity = @ - tradeQuantity],
              IF PutBack([topBuyOrder EXCEPT !.quantity = @ - tradeQuantity])
              THEN PushHeap("buy", PopHeap("buy", buys),
                            [topBuyOrder EXCEPT !.quantity = @ - tradeQuantity])
              ELSE PopHeap("buy", buys),
              Append(steps,
                     Step(buys, topBuyOrder, sellOrder.quantity,
                          Trade(topBuyOrder.orderID, sellOrder.orderID,
                                SellTradePrice(sellOrder, topBuyOrder), tradeQuantity),
                          PutBack([topBuyOrder EXCEPT !.quantity = @ - tradeQuantity]),
                          PopHeap("buy", buys))))

\* the while loop of processSellOrder
MatchSell(sellOrder, buys, steps) ==
    IF sellOrder.quantity > 0 /\ buys # <<>>
    THEN IF SellMatches(sellOrder, Top(buys))
         THEN ExecuteSell(sellOrder, buys, steps, Top(buys),
                          TradeQuantity(sellOrder, Top(buys)))
         ELSE [order |-> sellOrder, opp |-> buys, steps |-> steps]
    ELSE [order |-> sellOrder, opp |-> buys, steps |-> steps]

\* The result of one processOrder call: the book and what happened.
Result(buys, sells, steps, rejected, rested) ==
    [buys |-> buys, sells |-> sells, steps |-> steps,
     rejected |-> rejected, rested |-> rested]

\* the end of processBuyOrder: what is left of the order (m.order) is rested
RestBuy(buys, m) ==
    Result(IF Remaining(m.order) THEN PushHeap("buy", buys, m.order) ELSE buys,
           m.opp, m.steps, FALSE, Remaining(m.order))

\* the end of processSellOrder
RestSell(sells, m) ==
    Result(m.opp,
           IF Remaining(m.order) THEN PushHeap("sell", sells, m.order) ELSE sells,
           m.steps, FALSE, Remaining(m.order))

\* processBuyOrder: match, then rest what is left
ProcessBuyOrder(buyOrder, buys, sells) == RestBuy(buys, MatchBuy(buyOrder, sells, <<>>))

\* processSellOrder
ProcessSellOrder(sellOrder, buys, sells) ==
    RestSell(sells, MatchSell(sellOrder, buys, <<>>))

\* a slip: the limit itself is refused
RiskRejected_Inclusive(newOrder) == newOrder.quantity >= MaxQuantity

\* the risk check of processOrder
RiskRejected(newOrder) == newOrder.quantity > MaxQuantity

\* processOrder
ProcessOrder(newOrder, buys, sells) ==
    IF RiskRejected(newOrder)
    THEN Result(buys, sells, <<>>, TRUE, FALSE)
    ELSE IF newOrder.type = "buy"
         THEN ProcessBuyOrder(newOrder, buys, sells)
         ELSE ProcessSellOrder(newOrder, buys, sells)

----------------------------------------------------------------------------
(* The program: main()'s menu loop around one MatchingEngine *)

\* What the last submission was and what became of it (history).
\*   via      "main" (menu choice 1), "random" (generateRandomOrders) or
\*            "call" (processOrder called directly)
\*   order    the Order passed to processOrder
\*   buys, sells  the book when processOrder was entered
\*   rejected, rested, steps  what processOrder did
Call(via, order, buys, sells, r) ==
    [via |-> via, order |-> order, buys |-> buys,
     sells |-> sells, rejected |-> r.rejected, rested |-> r.rested,
     steps |-> r.steps]

NoOrder == Order(0, "", 0, 0, 0)
NoResult == Result(<<>>, <<>>, <<>>, FALSE, FALSE)

\* the trades of a call, in the order logTrade received them
TradesOf(steps) == [i \in 1..Len(steps) |-> steps[i].trade]

\* the number of processOrder calls so far
Calls == (orderCounter - FirstOrderID) + (randomCounter - FirstRandomID)

Init ==
    /\ buyOrders = <<>>
    /\ sellOrders = <<>>
    /\ tradeLog = <<>>
    /\ orderCounter = FirstOrderID
    /\ randomCounter = FirstRandomID
    /\ clock = 0
    /\ genLeft = 0
    /\ submitted = <<>>
    /\ lastCall = Call("none", NoOrder, <<>>, <<>>, NoResult)

\* the engine's state after a processOrder call with result r
Apply(via, newOrder, r) ==
    /\ buyOrders' = r.buys
    /\ sellOrders' = r.sells
    /\ tradeLog' = tradeLog \o TradesOf(r.steps)
    /\ submitted' = Append(submitted, [order |-> newOrder, rejected |-> r.rejected])
    /\ lastCall' = Call(via, newOrder, buyOrders, sellOrders, r)

\* engine.processOrder(newOrder)
Submit(via, newOrder) ==
    Apply(via, newOrder, ProcessOrder(newOrder, buyOrders, sellOrders))

\* main()'s input checks of menu choice 1, each made right after its prompt
ValidType(type) == ~(type # "buy" /\ type # "sell")
ValidPrice(price) == ~(price <= 0)
ValidQuantity(quantity) == ~(quantity <= 0)

\* an input check failed: main() prints a message and returns to the menu
Refuse == UNCHANGED vars

\* main(), menu choice 1, with the user's input drawn from the given sets:
\* the type, the price and the quantity are read and checked in turn
PlaceOrderFrom(types, prices, quantities) ==
    /\ genLeft = 0
    /\ \E type \in types :
         IF ~ValidType(type) THEN Refuse
         ELSE \E price \in prices :
           IF ~ValidPrice(price) THEN Refuse
           ELSE \E quantity \in quantities :
             IF ~ValidQuantity(quantity) THEN Refuse
             ELSE \E now \in {clock, clock + 1} :
               /\ Submit("main", Order(orderCounter, type, price, quantity, now))
               /\ orderCounter' = orderCounter + 1
               /\ clock' = now
               /\ UNCHANGED <<randomCounter, genLeft>>

\* main(), menu choice 1: place a new order
PlaceOrder ==
    /\ Calls < MaxOrders
    /\ PlaceOrderFrom(UserTypes, UserPrices, UserQuantities)

\* main(), menu choice 3: generateRandomOrders(count) is entered
GenerateRandomOrders ==
    /\ genLeft = 0
    /\ \E count \in UserCounts :
         /\ Calls + count <= MaxOrders
         /\ genLeft' = IF count <= 0 \/ count > MaxRandomCount THEN 0 ELSE count
    /\ UNCHANGED <<buyOrders, sellOrders, tradeLog, orderCounter, randomCounter,
                   clock, submitted, lastCall>>

\* one iteration of generateRandomOrders' loop
GenerateNext ==
    /\ genLeft > 0
    /\ \E type \in Types, price \in RandomPrices, quantity \in SmallQuantities,
          now \in {clock, clock + 1} :
         /\ Submit("random", Order(randomCounter, type, price, quantity, now))
         /\ clock' = now
    /\ randomCounter' = randomCounter + 1
    /\ genLeft' = genLeft - 1
    /\ UNCHANGED orderCounter

Next == PlaceOrder \/ GenerateRandomOrders \/ GenerateNext

\* The program: the menu loop of main()
Spec == Init /\ [][Next]_vars

\* main(), menu choice 1, by a user who quotes one price only
PlaceLevelOrder ==
    /\ Calls < MaxLevelOrders
    /\ PlaceOrderFrom(Types, {MinRandomPrice}, LevelQuantities)

NextLevel == PlaceLevelOrder

\* The program with every order at one price level (longer runs)
SpecLevel == Init /\ [][NextLevel]_vars

\* processOrder called directly (it is public) with any Order at all
CallProcessOrder ==
    /\ Calls < MaxOrders
    /\ \E type \in UserTypes, price \in UserPrices, quantity \in UserQuantities,
          now \in {clock, clock + 1} :
         /\ Submit("call", Order(orderCounter, type, price, quantity, now))
         /\ clock' = now
    /\ orderCounter' = orderCounter + 1
    /\ UNCHANGED <<randomCounter, genLeft>>

NextEngine == CallProcessOrder

\* The MatchingEngine alone, driven through its public processOrder
SpecEngine == Init /\ [][NextEngine]_vars

----------------------------------------------------------------------------
(* Properties *)

Elems(c) == {c[i] : i \in 1..Len(c)}

RECURSIVE SumQuantity(_)
\* the sum of the quantity fields of a sequence of orders or trades
SumQuantity(c) == IF c = <<>> THEN 0 ELSE Head(c).quantity + SumQuantity(Tail(c))

\* the ids resting in the book, and the ids named in the trade log
BookIDs == {o.orderID : o \in Elems(buyOrders) \cup Elems(sellOrders)}
TradeIDs == {t.buy : t \in Elems(tradeLog)} \cup {t.sell : t \in Elems(tradeLog)}

\* the orders that passed the risk check
Admitted == SelectSeq(submitted, LAMBDA e : ~e.rejected)
AdmittedOrders == [i \in 1..Len(Admitted) |-> Admitted[i].order]

\* the last submission reached processOrder
Processed == lastCall.via # "none"
IsBuy == lastCall.order.type = "buy"
Steps == lastCall.steps
StepIdx == 1..Len(lastCall.steps)

\* the last call's own side and opposite side, before and after
OwnBefore == IF IsBuy THEN lastCall.buys ELSE lastCall.sells
OwnAfter == IF IsBuy THEN buyOrders ELSE sellOrders
OppAfter == IF IsBuy THEN sellOrders ELSE buyOrders
OppBefore == IF IsBuy THEN lastCall.sells ELSE lastCall.buys
Unchanged == buyOrders = lastCall.buys /\ sellOrders = lastCall.sells

\* C1 (uncrossed book at quiescence): after each processOrder call, either a
\* side of the book is empty or every bid, so the best bid, is priced strictly
\* below every ask, so the best ask.
C1_UncrossedBook ==
    /\ \A b \in Elems(buyOrders), a \in Elems(sellOrders) : b.price < a.price
    /\ buyOrders = <<>> \/ sellOrders = <<>>
         \/ Top(buyOrders).price < Top(sellOrders).price

\* a call traded and left orders on both sides
C1_Witness ==
    /\ Steps # <<>>
    /\ buyOrders # <<>> /\ sellOrders # <<>>

\* C2 (conservation of quantity): twice the traded quantity plus the quantity
\* resting on both sides equals the quantity of the admitted orders.
C2_Conservation ==
    2 * SumQuantity(tradeLog) + SumQuantity(buyOrders) + SumQuantity(sellOrders)
        = SumQuantity(AdmittedOrders)

\* trades, resting orders and a rejected order all occurred
C2_Witness ==
    /\ tradeLog # <<>>
    /\ buyOrders # <<>> \/ sellOrders # <<>>
    /\ Len(Admitted) < Len(submitted)

\* C3 (time priority within a price level): the resting order a trade takes
\* has the earliest timestamp among the orders resting at its price, whether
\* or not it was partially filled and put back before.
C3_TimePriority ==
    \A i \in StepIdx : \A x \in Elems(Steps[i].oppBefore) :
        (x.price = Steps[i].resting.price
            /\ x.timestamp # Steps[i].resting.timestamp)
        => Steps[i].resting.timestamp < x.timestamp

\* trade j of the log filled order id while it was resting (its counterparty
\* was submitted later)
FilledAtRest(id, j) ==
    \/ tradeLog[j].sell = id /\ tradeLog[j].buy > id
    \/ tradeLog[j].buy = id /\ tradeLog[j].sell > id

\* a trade took an order that had been partially filled and put back, ahead
\* of a later order resting at the same price
C3_Witness ==
    \E i \in StepIdx :
        /\ \E x \in Elems(Steps[i].oppBefore) :
              /\ x.price = Steps[i].resting.price
              /\ x.timestamp > Steps[i].resting.timestamp
        /\ \E j \in 1..(Len(tradeLog) - Len(Steps)) :
              FilledAtRest(Steps[i].resting.orderID, j)

\* C4 (price priority): the counterparty of every trade is the order taken
\* from the opposite side, and no order resting there has a strictly better
\* price (lower for asks, higher for bids).
C4_PricePriority ==
    Processed =>
    \A i \in StepIdx :
        /\ IF IsBuy THEN Steps[i].trade.sell = Steps[i].resting.orderID
                    ELSE Steps[i].trade.buy = Steps[i].resting.orderID
        /\ Steps[i].resting \in Elems(Steps[i].oppBefore)
        /\ \A x \in Elems(Steps[i].oppBefore) :
              IF IsBuy THEN ~(x.price < Steps[i].resting.price)
                       ELSE ~(x.price > Steps[i].resting.price)

\* a trade took the better-priced of two orders resting at different prices
C4_Witness ==
    \E i \in StepIdx : \E x \in Elems(Steps[i].oppBefore) :
        x.price # Steps[i].resting.price

\* C5 (aggressor respects its limit): a buy order never trades above its
\* price, a sell order never below its price.
C5_AggressorLimit ==
    Processed =>
    \A i \in StepIdx :
        IF IsBuy THEN Steps[i].trade.price <= lastCall.order.price
                 ELSE Steps[i].trade.price >= lastCall.order.price

\* a buy order traded strictly below its limit
C5_Witness ==
    /\ Processed /\ IsBuy
    /\ \E i \in StepIdx : Steps[i].trade.price < lastCall.order.price

\* C6 (resting-price execution): every trade's price is the price of the
\* resting order taken for it; it is the incoming order's price only when
\* the two are equal.
C6_RestingPrice ==
    \A i \in StepIdx :
        /\ Steps[i].trade.price = Steps[i].resting.price
        /\ Steps[i].trade.price = lastCall.order.price
              => Steps[i].resting.price = lastCall.order.price

\* a sell order traded at a bid's price that differs from its own
C6_Witness ==
    /\ Processed /\ ~IsBuy
    /\ \E i \in StepIdx : Steps[i].resting.price # lastCall.order.price

\* C7 (risk rejection): an order of more than 1000 units leaves the book and
\* the log as they were and its id never shows in either; an order of exactly
\* 1000 units is admitted.
C7_RiskRejection ==
    /\ \A i \in 1..Len(submitted) :
          submitted[i].order.quantity > 1000
          => submitted[i].order.orderID \notin BookIDs \cup TradeIDs
    /\ (Processed /\ lastCall.order.quantity > 1000)
          => lastCall.rejected /\ Unchanged /\ Steps = <<>>
    /\ (Processed /\ lastCall.order.quantity = 1000)
          => /\ ~lastCall.rejected
             /\ lastCall.order.orderID \in BookIDs \cup TradeIDs

\* a marketable order was rejected for its size while asks were resting
C7_Witness ==
    /\ Processed /\ lastCall.order.quantity > 1000 /\ IsBuy
    /\ lastCall.sells # <<>>
    /\ lastCall.order.price >= Top(lastCall.sells).price

\* the order handed to processOrder breaks one of the validation rules
InvalidOrder(o) ==
    \/ o.type \notin {"buy", "sell"}
    \/ o.price <= 0
    \/ o.quantity <= 0

\* C8 (validation rejection): processOrder rejects an order with an unknown
\* side, a price <= 0 or a quantity <= 0: the book stays as it was and no
\* trade is emitted.
C8_ValidationRejection ==
    (lastCall.via = "call" /\ InvalidOrder(lastCall.order))
    => /\ Unchanged
       /\ Steps = <<>>
       /\ lastCall.order.orderID \notin BookIDs \cup TradeIDs

\* C9 (determinism) relates two runs on the same submissions.  ProcessOrder is
\* an operator, so two runs are two evaluations of it and agree by
\* construction; no formula over one behaviour states the claim.

\* the quantity the last call traded, and what it left of the incoming order
FilledQuantity == SumQuantity(TradesOf(Steps))
Residual == lastCall.order.quantity - FilledQuantity

\* the own side gained exactly the order o
RestedAs(o) ==
    /\ Len(OwnAfter) = Len(OwnBefore) + 1
    /\ Elems(OwnAfter) = Elems(OwnBefore) \cup {o}
    /\ o \notin Elems(OwnBefore)

OutcomeRejected == lastCall.rejected /\ Steps = <<>> /\ Unchanged
OutcomeFilled ==
    /\ ~lastCall.rejected /\ Steps # <<>> /\ Residual = 0
    /\ OwnAfter = OwnBefore
    /\ lastCall.order.orderID \notin BookIDs
OutcomePartialRested ==
    /\ ~lastCall.rejected /\ Steps # <<>> /\ Residual > 0
    /\ RestedAs([lastCall.order EXCEPT !.quantity = Residual])
OutcomeRested ==
    /\ ~lastCall.rejected /\ Steps = <<>>
    /\ RestedAs(lastCall.order)

\* the incoming order could trade with the best order left on the other side
StillMarketable ==
    /\ OppAfter # <<>>
    /\ IF IsBuy THEN lastCall.order.price >= Top(OppAfter).price
                ELSE lastCall.order.price <= Top(OppAfter).price

\* C10 (outcome of one call): every processOrder call ends in exactly one of
\* REJECTED, ACCEPTED_FILLED, ACCEPTED_PARTIAL_RESTED and ACCEPTED_RESTED, and
\* an order is rested only when it cannot trade with the other side.
C10_Outcome ==
    Processed =>
    /\ Cardinality({k \in 1..4 :
            \/ k = 1 /\ OutcomeRejected
            \/ k = 2 /\ OutcomeFilled
            \/ k = 3 /\ OutcomePartialRested
            \/ k = 4 /\ OutcomeRested}) = 1
    /\ (OutcomePartialRested \/ OutcomeRested) => ~StillMarketable
    /\ lastCall.rested <=> (OutcomePartialRested \/ OutcomeRested)

\* an order traded and rested what was left while the other side still held
\* an order it could not trade with
C10_Witness ==
    /\ Processed /\ OutcomePartialRested
    /\ OppAfter # <<>>

\* the id a trade of the last call carries for the incoming order's side, and
\* the id it carries for the other side
OwnID(t) == IF IsBuy THEN t.buy ELSE t.sell
CounterpartyID(t) == IF IsBuy THEN t.sell ELSE t.buy

\* the trades of the last call are the tail of the log, in the order of the
\* loop's iterations: each iteration starts with what the one before left of
\* the incoming order
LoggedInOrder ==
    /\ Len(tradeLog) >= Len(Steps)
    /\ \A i \in StepIdx :
          tradeLog[Len(tradeLog) - Len(Steps) + i] = Steps[i].trade
    /\ \A i \in StepIdx :
          Steps[i].aggressorQty =
              IF i = 1 THEN lastCall.order.quantity
              ELSE Steps[i - 1].aggressorQty - Steps[i - 1].trade.quantity

\* a step of the program leaves the records already in the log as they are
LogKept == Len(tradeLog') >= Len(tradeLog)
              /\ SubSeq(tradeLog', 1, Len(tradeLog)) = tradeLog

\* C11 (trade emission during a call): every trade of a processOrder call
\* names the incoming order on its own side and, on the other side, an order
\* that rested on the opposite side when the call started; the call's trades
\* are appended to the log in execution order, and no step of the program
\* changes or removes a record already in the log.
C11_TradeEmission ==
    /\ [](Processed =>
            /\ \A i \in StepIdx :
                  /\ OwnID(Steps[i].trade) = lastCall.order.orderID
                  /\ CounterpartyID(Steps[i].trade)
                        \in {o.orderID : o \in Elems(OppBefore)}
            /\ LoggedInOrder)
    /\ [][LogKept]_vars

\* a sell order traded with two different bids in one call
C11_Witness ==
    /\ Processed /\ ~IsBuy
    /\ Len(Steps) >= 2
    /\ Steps[1].trade.buy # Steps[2].trade.buy

\* the opposite side as iteration i of the last call's loop left it
OppAfterStep(i) == IF i < Len(Steps) THEN Steps[i + 1].oppBefore ELSE OppAfter

\* C12 (termination): every iteration of the matching loop that does not
\* break leaves the opposite side with strictly less total quantity than it
\* found, and a call makes at most as many iterations as orders rested on
\* the opposite side when it started.
C12_Termination ==
    Processed =>
    /\ \A i \in StepIdx :
          /\ SumQuantity(OppAfterStep(i)) < SumQuantity(Steps[i].oppBefore)
          /\ SumQuantity(OppAfterStep(i)) >= 0
    /\ Len(Steps) <= Len(OppBefore)

\* a call made as many iterations as orders rested on the opposite side,
\* more than one, and went on to rest what was left
C12_Witness ==
    /\ Processed
    /\ Len(Steps) >= 2 /\ Len(Steps) = Len(OppBefore)
    /\ lastCall.rested

\* C13 (no peek or pop on an empty side): every iteration that peeks and
\* pops finds the opposite side non-empty, the order peeked is its best
\* order, and the order the pop removes from the side is the order peeked.
C13_PeekPop ==
    \A i \in StepIdx :
        /\ Steps[i].oppBefore # <<>>
        /\ Steps[i].resting \in Elems(Steps[i].oppBefore)
        /\ \A x \in Elems(Steps[i].oppBefore) :
              ~Comp(IF IsBuy THEN "sell" ELSE "buy", Steps[i].resting, x)
        /\ Len(Steps[i].oppPopped) = Len(Steps[i].oppBefore) - 1
        /\ Elems(Steps[i].oppPopped)
              = Elems(Steps[i].oppBefore) \ {Steps[i].resting}

\* an order was peeked and popped from a side holding another order too, and
\* a later iteration emptied that side
C13_Witness ==
    /\ Processed /\ Len(Steps) >= 2
    /\ Len(Steps[1].oppBefore) >= 2
    /\ Steps[Len(Steps)].oppPopped = <<>>

\* C14 (resting orders have positive quantity): every order on the bid side
\* or the ask side has quantity > 0, whatever orders processOrder was given.
C14_PositiveResting ==
    \A o \in Elems(buyOrders) \cup Elems(sellOrders) : o.quantity > 0

\* a trade exhausted both the incoming order and the resting order it took:
\* neither is in the book, which still holds another order
C14_Witness ==
    /\ Processed /\ Steps # <<>>
    /\ Residual = 0 /\ ~Steps[Len(Steps)].reinserted
    /\ lastCall.order.orderID \notin BookIDs
    /\ Steps[Len(Steps)].resting.orderID \notin BookIDs
    /\ BookIDs # {}

\* the order id was put into the book once only: before the last call no
\* trade had filled it in part while it rested (which puts it back)
InsertedOnce(id) ==
    \A j \in 1..(Len(tradeLog) - Len(Steps)) : ~FilledAtRest(id, j)

\* the position of order id among the submissions
SubmittedAt(id) ==
    CHOOSE k \in 1..Len(submitted) : submitted[k].order.orderID = id

\* C15 (insertion order as final tie-break): of two orders resting on one
\* side with equal price and equal timestamp, each put into the book once
\* (by the call that submitted it), the one inserted first is the one a
\* trade takes first.
C15_InsertionOrder ==
    \A i \in StepIdx : \A x \in Elems(Steps[i].oppBefore) :
        (/\ x.orderID # Steps[i].resting.orderID
         /\ x.price = Steps[i].resting.price
         /\ x.timestamp = Steps[i].resting.timestamp
         /\ InsertedOnce(x.orderID)
         /\ InsertedOnce(Steps[i].resting.orderID))
        => SubmittedAt(Steps[i].resting.orderID) < SubmittedAt(x.orderID)

\* the resting order of iteration i as its trade left it
RestingAfter(i) ==
    [Steps[i].resting EXCEPT !.quantity = @ - Steps[i].trade.quantity]

\* the ids resting on a side
IDsOf(c) == {o.orderID : o \in Elems(c)}

\* C16 (partial fill of a resting order): a resting order a trade leaves
\* with quantity is back on its own side after the iteration, with its id,
\* type, price and timestamp and its quantity less the trade's, in the place
\* of the order popped; one left with nothing is on neither side, then and
\* when the call returns.
C16_PartialFill ==
    Processed =>
    \A i \in StepIdx :
        IF RestingAfter(i).quantity > 0
        THEN /\ Steps[i].reinserted
             /\ Len(OppAfterStep(i)) = Len(Steps[i].oppBefore)
             /\ Elems(OppAfterStep(i))
                   = (Elems(Steps[i].oppBefore) \ {Steps[i].resting})
                        \cup {RestingAfter(i)}
             /\ RestingAfter(i) \in Elems(OppAfter)
             /\ Steps[i].resting.orderID \notin IDsOf(OwnAfter)
        ELSE /\ ~Steps[i].reinserted
             /\ RestingAfter(i).quantity = 0
             /\ Len(OppAfterStep(i)) = Len(Steps[i].oppBefore) - 1
             /\ Steps[i].resting.orderID \notin IDsOf(OppAfterStep(i))
             /\ Steps[i].resting.orderID \notin BookIDs

\* one call took all of a resting order and then part of another, which
\* went back into the book
C16_Witness ==
    /\ Processed /\ Len(Steps) >= 2
    /\ ~Steps[1].reinserted
    /\ Steps[Len(Steps)].reinserted
    /\ RestingAfter(Len(Steps)).quantity > 0

\* what iteration i's trade left of the incoming order
AggressorAfter(i) == Steps[i].aggressorQty - Steps[i].trade.quantity

\* C17 (trade quantity): every trade's quantity is the smaller of what is
\* left of the incoming order and the resting order's quantity at that
\* moment; it is strictly positive, and right after the trade one of the two
\* orders has nothing left (and neither is overdrawn).
C17_TradeQuantity ==
    \A i \in StepIdx :
        /\ Steps[i].trade.quantity <= Steps[i].aggressorQty
        /\ Steps[i].trade.quantity <= Steps[i].resting.quantity
        /\ \/ Steps[i].trade.quantity = Steps[i].aggressorQty
           \/ Steps[i].trade.quantity = Steps[i].resting.quantity
        /\ Steps[i].trade.quantity > 0
        /\ AggressorAfter(i) = 0 \/ RestingAfter(i).quantity = 0
        /\ AggressorAfter(i) >= 0 /\ RestingAfter(i).quantity >= 0

\* in one call a trade was limited by the resting order and a later one by
\* what was left of the incoming order
C17_Witness ==
    \E i, j \in StepIdx :
        /\ i < j
        /\ Steps[i].trade.quantity < Steps[i].aggressorQty
        /\ Steps[j].trade.quantity < Steps[j].resting.quantity

\* the iterations of the last call whose trade left quantity on the resting
\* order
PartialFills == {i \in StepIdx : RestingAfter(i).quantity > 0}

\* C18 (one partial fill per call): in one processOrder call at most one
\* resting order is filled in part, and only by the call's last trade; every
\* earlier trade takes all of its resting order, which leaves the book; and
\* a call that puts a partly filled resting order back does not rest the
\* incoming order.
C18_OnePartialFill ==
    Processed =>
    /\ Cardinality(PartialFills) <= 1
    /\ \A i \in StepIdx :
          i < Len(Steps)
          => /\ i \notin PartialFills
             /\ ~Steps[i].reinserted
             /\ Steps[i].trade.quantity = Steps[i].resting.quantity
             /\ Steps[i].resting.orderID \notin BookIDs
    /\ PartialFills # {}
          => /\ PartialFills = {Len(Steps)}
             /\ ~lastCall.rested
             /\ Residual = 0
             /\ lastCall.order.orderID \notin BookIDs
    /\ lastCall.rested => PartialFills = {}

\* a call's second trade filled a resting order in part, after its first
\* trade had taken all of another; the incoming order did not rest
C18_Witness ==
    /\ Processed /\ Len(Steps) >= 2
    /\ PartialFills = {Len(Steps)}
    /\ ~lastCall.rested /\ Residual = 0

\* the side of the book the last call's order belongs to
OwnSide == IF IsBuy THEN "buy" ELSE "sell"

\* what the last call left of its order
ResidualOrder == [lastCall.order EXCEPT !.quantity = Residual]

TradesNaming(id) == SelectSeq(tradeLog, LAMBDA t : t.buy = id \/ t.sell = id)
RestingWith(id) == SelectSeq(buyOrders \o sellOrders, LAMBDA o : o.orderID = id)

\* every submission has an id of its own (main() counts its ids from 1,
\* generateRandomOrders from 10000)
UniqueIDs ==
    \A i, j \in 1..Len(submitted) :
        submitted[i].order.orderID = submitted[j].order.orderID => i = j

\* C20 (per-order fill accounting): order ids being unique, for every
\* admitted order the quantities of the trades naming it plus its quantity
\* in the book (0 when it is not there) make its submitted quantity; it is
\* never filled beyond that, its id is in the book at most once, and the
\* book holds admitted orders only.
C20_FillAccounting ==
    UniqueIDs =>
    /\ \A k \in 1..Len(AdmittedOrders) :
          /\ SumQuantity(TradesNaming(AdmittedOrders[k].orderID))
                + SumQuantity(RestingWith(AdmittedOrders[k].orderID))
                = AdmittedOrders[k].quantity
          /\ SumQuantity(TradesNaming(AdmittedOrders[k].orderID))
                <= AdmittedOrders[k].quantity
          /\ Len(RestingWith(AdmittedOrders[k].orderID)) <= 1
    /\ BookIDs \subseteq {AdmittedOrders[k].orderID : k \in 1..Len(AdmittedOrders)}

\* an order was filled in part by two calls and still rests with the
\* remainder
C20_Witness ==
    UniqueIDs /\ \E k \in 1..Len(AdmittedOrders) :
        /\ Len(TradesNaming(AdmittedOrders[k].orderID)) >= 2
        /\ Len(RestingWith(AdmittedOrders[k].orderID)) = 1
        /\ Len(Steps) = 1

====
